---- MODULE Spec2Model ----
(***************************************************************************)
(* LM75A_sense_i2c_v5.ino: an Arduino sketch that polls an LM75A           *)
(* temperature sensor over I2C and takes line commands from the serial     *)
(* terminal.  The model covers the sketch's globals, setup(), the three    *)
(* phases of loop() (poll, command, delay), processCommand with the        *)
(* Arduino String parsing it performs, the register layer                  *)
(* (change_OS_temp, change_tHyst_temp, setConfigConditions,                *)
(* change_to_*_reg, readTemperature) and, as the environment, the Wire     *)
(* transport with the sensor's four registers behind it.                   *)
(***************************************************************************)
EXTENDS Integers, Sequences, FiniteSets, TLC

(***************************************************************************)
(* Bounds of the model.                                                    *)
(***************************************************************************)
\* Most complete lines the serial receive buffer holds at one time.
MaxPending == 2

(***************************************************************************)
(* Arduino String operations used by processCommand.  A String is a        *)
(* sequence of one-character strings; indices in the source are 0-based.   *)
(***************************************************************************)
IsSpace(ch) == ch \in {" ", "\t", "\r", "\n"}

IsDigit(ch) == ch \in {"0", "1", "2", "3", "4", "5", "6", "7", "8", "9"}

DigitVal(ch) ==
  CASE ch = "0" -> 0 [] ch = "1" -> 1 [] ch = "2" -> 2 [] ch = "3" -> 3
    [] ch = "4" -> 4 [] ch = "5" -> 5 [] ch = "6" -> 6 [] ch = "7" -> 7
    [] ch = "8" -> 8 [] ch = "9" -> 9

\* String::startsWith(prefix)
StartsWith(s, p) == Len(p) <= Len(s) /\ SubSeq(s, 1, Len(p)) = p

\* String::substring(left): the characters from 0-based index left to the end,
\* the empty String when left is at or past the end.
Substring(s, left) == IF left >= Len(s) THEN <<>> ELSE SubSeq(s, left + 1, Len(s))

RECURSIVE TrimLeft(_)
TrimLeft(s) == IF s /= <<>> /\ IsSpace(Head(s)) THEN TrimLeft(Tail(s)) ELSE s

RECURSIVE TrimRight(_)
TrimRight(s) ==
  IF s /= <<>> /\ IsSpace(s[Len(s)]) THEN TrimRight(SubSeq(s, 1, Len(s) - 1)) ELSE s

\* String::trim()
Trim(s) == TrimRight(TrimLeft(s))

\* String::indexOf(ch): 0-based index of the first occurrence, -1 when absent.
IndexOf(s, ch) ==
  IF \E i \in 1..Len(s) : s[i] = ch
    THEN (CHOOSE i \in 1..Len(s) : s[i] = ch /\ \A j \in 1..(i - 1) : s[j] /= ch) - 1
    ELSE -1

RECURSIVE DigitsValue(_, _)
DigitsValue(s, acc) ==
  IF s /= <<>> /\ IsDigit(Head(s))
    THEN DigitsValue(Tail(s), acc * 10 + DigitVal(Head(s)))
    ELSE acc

\* String::toInt(), i.e. atol: leading white space, an optional sign, then the
\* longest run of digits; 0 when there is none.  The result is a long; the
\* lines of InputLines stay within its range.
ToInt(s) ==
  LET t == TrimLeft(s) IN
    IF t = <<>> THEN 0
    ELSE IF Head(t) = "-" THEN 0 - DigitsValue(Tail(t), 0)
    ELSE IF Head(t) = "+" THEN DigitsValue(Tail(t), 0)
    ELSE DigitsValue(t, 0)

\* int n = s.toInt(): the long is narrowed to an int.  An int of 16 bits keeps
\* the low 16 bits (two's complement); an int as wide as long keeps the value.
IntOfLong(v, bits) ==
  IF bits = 16 THEN ((v + 32768) % 65536) - 32768 ELSE v

\* The argument of a command: the text after the command word and its
\* separator, trimmed, cut after a '=' if there is one, then converted.
ArgString(command, from) ==
  LET a == Trim(Substring(command, from))
      equalsIndex == IndexOf(a, "=")
  IN IF equalsIndex /= -1 THEN Substring(a, equalsIndex + 1) ELSE a

(***************************************************************************)
(* Command words and the input lines the operator may type.                *)
(***************************************************************************)
W_SET_OS == <<"S", "E", "T", "_", "O", "S">>
W_SET_DELAY == <<"S", "E", "T", "_", "D", "E", "L", "A", "Y">>
W_SET_HYST == <<"S", "E", "T", "_", "H", "Y", "S", "T">>
W_HELP == <<"H", "E", "L", "P">>
W_GET_TEMP == <<"G", "E", "T", "_", "T", "E", "M", "P">>
W_PAUSE == <<"P", "A", "U", "S", "E">>
W_START == <<"S", "T", "A", "R", "T">>

InputLines ==
  { W_SET_OS \o <<" ", "5", "0">>,
    W_SET_OS \o <<"=", "2", "0", "0">>,
    W_SET_OS \o <<" ", "-", "1">>,
    W_SET_OS \o <<" ", "6", "5", "5", "8", "6">>,
    W_SET_HYST \o <<" ", "=", " ", "4", "5", "\r">>,
    W_SET_HYST \o <<" ", "1", "2", "8">>,
    W_SET_HYST \o <<" ", "-", "5">>,
    W_SET_DELAY \o <<" ", "5", "0", "0">>,
    W_SET_DELAY \o <<"=", "5">>,
    W_SET_DELAY \o <<" ", "0">>,
    W_SET_DELAY \o <<" ", "-", "2", "0">>,
    W_SET_DELAY \o <<" ", "7", "0", "0", "0", "0">>,
    W_HELP,
    W_GET_TEMP,
    W_PAUSE,
    W_START \o <<" ">>,
    <<"s", "e", "t", "_", "o", "s", " ", "5">>,
    <<"R", "E", "S", "E", "T">>,
    <<>> }

(***************************************************************************)
(* State.                                                                  *)
(***************************************************************************)
VARIABLES
  pc,           \* where the sketch is: "setup", then "poll", "input", "sleep" in loop()
  int_bits,     \* width of int on the board the sketch was built for (16 or 32)
  temp_c,       \* byte temp_c
  temp_f,       \* byte temp_f
  outputFlag,   \* int outputFlag
  user_T_OS,    \* int user_T_OS
  user_T_hyst,  \* int user_T_hyst
  loop_delay,   \* int loop_delay
  dev,          \* the sensor: register pointer and Configuration, T_hyst, T_os registers
  wire,         \* the Wire transmit side: whether a transmission is open, bytes queued
  wire_log,     \* the Wire calls made by the last step, in order
  write_calls,  \* the calls of change_OS_temp / change_tHyst_temp made by the last step
  serial_out,   \* what the last step printed on the serial terminal
  rx_lines,     \* complete lines waiting in the serial receive buffer
  cmd_line,     \* the command the last step gave to processCommand, or NoLine
  iter_log,     \* what this iteration of loop() has done so far
  slept,        \* the argument of the last delay() call of loop()
  switch_status \* what endTransmission returned to the last change_to_temp_reg, -1 before any

vars ==
  << pc, int_bits, temp_c, temp_f, outputFlag, user_T_OS, user_T_hyst, loop_delay,
     dev, wire, wire_log, write_calls, serial_out, rx_lines, cmd_line, iter_log,
     slept, switch_status >>

NoLine == <<"<none>">>

(***************************************************************************)
(* The serial terminal: every println is one message.                      *)
(***************************************************************************)
Msg(m) == [msg |-> m, vals |-> <<>>, text |-> <<>>]
MsgV(m, v) == [msg |-> m, vals |-> v, text |-> <<>>]
MsgT(m, v, t) == [msg |-> m, vals |-> v, text |-> t]

Println(io, m) == [io EXCEPT !.out = Append(@, m)]

\* Whether the output holds a message with the given text.
HasMsg(out, m) == \E i \in 1..Len(out) : out[i].msg = m

MismatchText == "~~~ ByteMismatchError: Bytes Received: "

OsRangeText == "Error: Overtemp threshold out of range."

HystRangeText == "Error: Hyst value out of range."

DelayErrorText == "Error: Invalid delay entered."

DelayWarningText == "Warning: New delay entered is lower than the minimum allowed."

SwitchErrorText == "~~~ Error switching back!"

UnknownText == "Error - Unknown command: "

(***************************************************************************)
(* The Wire transport and the sensor behind it (environment).  An io       *)
(* record carries the sensor, the transmit buffer, the call log and the    *)
(* serial output through the calls of one step.                            *)
(***************************************************************************)
\* Results of endTransmission: 0 success, 2 address not acknowledged (nothing
\* reached the sensor), 3 a data byte not acknowledged (the bytes before it did).
Outcomes ==
  { [status |-> 0, acked |-> 2], [status |-> 2, acked |-> 0], [status |-> 3, acked |-> 1] }

\* The transmission that re-selects the Temperature register carries one byte,
\* so a failure of it delivers nothing whatever the status.
SwitchOutcomes == { o \in Outcomes : o.status \in {0, 2} }

\* Byte counts requestFrom(0x48, 2) can return.
ByteCounts == {0, 1, 2}

\* Temperatures the sensor may hold when it is read.
TempBytes == {1, 30, 125}

\* What one readTemperature call meets: the byte count requestFrom returns, the
\* ambient temperature, the level of pin 13 and, should the Fahrenheit value not
\* fit a byte, what the build makes of it.  Only a 2-byte read looks at the rest.
ReadInputs ==
  { [count |-> n, ambient |-> a, pinState |-> p, ub |-> u] :
      n \in ByteCounts, a \in TempBytes, p \in {"HIGH", "LOW"}, u \in {"wrap", "saturate"} }

ReadCases ==
  { i \in ReadInputs :
      /\ i.count /= 2 => (i.ambient = 30 /\ i.pinState = "HIGH")
      /\ (i.count /= 2 \/ i.ambient < 125) => i.ub = "wrap" }

\* Number of bytes of buf the sensor took, given the outcome of the transmission.
Delivered(buf, o) ==
  IF o.status = 0 THEN Len(buf)
  ELSE IF o.status = 2 THEN 0
  ELSE IF o.acked < Len(buf) THEN o.acked ELSE Len(buf) - 1

\* The sensor after taking the bytes: the first selects the register, the second
\* is stored in it (the Temperature register, 0, is read-only).
DevReceive(d, bytes) ==
  IF bytes = <<>> THEN d
  ELSE LET p == bytes[1] % 4
           d1 == [d EXCEPT !.ptr = p]
       IN IF Len(bytes) < 2 THEN d1
          ELSE IF p = 1 THEN [d1 EXCEPT !.conf = bytes[2]]
          ELSE IF p = 2 THEN [d1 EXCEPT !.thyst = bytes[2]]
          ELSE IF p = 3 THEN [d1 EXCEPT !.tos = bytes[2]]
          ELSE d1

\* First byte the sensor returns to a read: the register the pointer is on.
DevReadByte(d, ambient) ==
  IF d.ptr = 0 THEN ambient
  ELSE IF d.ptr = 1 THEN d.conf
  ELSE IF d.ptr = 2 THEN d.thyst
  ELSE d.tos

WireBeginTransmission(io, addr) ==
  [io EXCEPT !.wire = [open |-> TRUE, buf |-> <<>>],
             !.log = Append(@, [op |-> "begin", val |-> addr, was_open |-> io.wire.open])]

WireWrite(io, b) ==
  [io EXCEPT !.wire.buf = Append(@, b % 256),
             !.log = Append(@, [op |-> "write", val |-> b % 256, was_open |-> io.wire.open])]

WireEndTransmission(io, o) ==
  [io EXCEPT !.dev = DevReceive(@, SubSeq(io.wire.buf, 1, Delivered(io.wire.buf, o))),
             !.wire = [open |-> FALSE, buf |-> <<>>],
             !.log = Append(@, [op |-> "end", val |-> o.status, was_open |-> io.wire.open])]

WireRequestFrom(io, addr, count) ==
  [io EXCEPT !.log = Append(@, [op |-> "requestFrom", val |-> count,
                                was_open |-> io.wire.open])]

IoStart ==
  [dev |-> dev, wire |-> wire, log |-> <<>>, calls |-> <<>>, out |-> <<>>,
   sw |-> switch_status]

(***************************************************************************)
(* Register layer.                                                         *)
(***************************************************************************)
\* Mutation of change_to_temp_reg: the pointer byte is not queued.
change_to_temp_reg_NoPointerByte(io, o) ==
  LET a == Println(io, Msg("Switching to temp_register..."))
      b == WireBeginTransmission(a, 72)
      d == WireEndTransmission(b, o)
      switchBack_flag == o.status
      e == [d EXCEPT !.sw = switchBack_flag]
  IN IF switchBack_flag /= 0
       THEN Println(e, Msg(SwitchErrorText))
       ELSE Println(e, Msg("~~~ Switching back success!"))

\* Mutation of change_to_temp_reg: a failed transmission is made a second time.
change_to_temp_reg_RetryOnce(io, o) ==
  LET a == Println(io, Msg("Switching to temp_register..."))
      b == WireBeginTransmission(a, 72)
      c == WireWrite(b, 0)
      d == WireEndTransmission(c, o)
      r == IF o.status /= 0
             THEN WireEndTransmission(WireWrite(WireBeginTransmission(d, 72), 0), o)
             ELSE d
      switchBack_flag == o.status
      e == [r EXCEPT !.sw = switchBack_flag]
  IN IF switchBack_flag /= 0
       THEN Println(e, Msg(SwitchErrorText))
       ELSE Println(e, Msg("~~~ Switching back success!"))

change_to_temp_reg(io, o) ==
  LET a == Println(io, Msg("Switching to temp_register..."))
      b == WireBeginTransmission(a, 72)
      c == WireWrite(b, 0)
      d == WireEndTransmission(c, o)
      switchBack_flag == o.status
      e == [d EXCEPT !.sw = switchBack_flag]
  IN IF switchBack_flag /= 0
       THEN Println(e, Msg(SwitchErrorText))
       ELSE Println(e, Msg("~~~ Switching back success!"))

change_to_configuration_reg(io) ==
  WireWrite(WireBeginTransmission(Println(io, Msg("Switching to config_register...")), 72), 1)

\* Mutation of change_to_tHyst_reg: the pointer byte is that of T_os.
change_to_tHyst_reg_SelectsOS(io) ==
  WireWrite(WireBeginTransmission(Println(io, Msg("Switching to tHyst_register...")), 72), 3)

change_to_tHyst_reg(io) ==
  WireWrite(WireBeginTransmission(Println(io, Msg("Switching to tHyst_register...")), 72), 2)

change_to_OS_reg(io) ==
  WireWrite(WireBeginTransmission(Println(io, Msg("Switching to OS_register...")), 72), 3)

\* Entry into fn with the argument arg.
Called(io, fn, arg) == [io EXCEPT !.calls = Append(@, [fn |-> fn, arg |-> arg])]

\* Mutation of Clamp: only the upper limit is applied.
Clamp_UpperOnly(v) == IF v > 127 THEN 127 ELSE v

\* The clamp at the head of change_OS_temp and change_tHyst_temp.
Clamp(v) == IF v < 0 THEN 0 ELSE IF v > 127 THEN 127 ELSE v

\* Mutation of change_OS_temp: the write transmission is not ended.
change_OS_temp_NoEnd(io, custom_T_os, o1, o2) ==
  LET a == change_to_OS_reg(Called(io, "change_OS_temp", custom_T_os))
      b == WireWrite(a, Clamp(custom_T_os))
  IN change_to_temp_reg(b, o2)

change_OS_temp(io, custom_T_os, o1, o2) ==
  LET a == change_to_OS_reg(Called(io, "change_OS_temp", custom_T_os))
      b == WireWrite(a, Clamp(custom_T_os))
      c == WireEndTransmission(b, o1)
  IN change_to_temp_reg(c, o2)

change_tHyst_temp(io, custom_T_hyst, o1, o2) ==
  LET a == change_to_tHyst_reg(Called(io, "change_tHyst_temp", custom_T_hyst))
      b == WireWrite(a, Clamp(custom_T_hyst))
      c == WireEndTransmission(b, o1)
  IN change_to_temp_reg(c, o2)

\* Mutation of setConfigConditions: the byte written is the power-on default.
setConfigConditions_DefaultByte(io, o1, o2) ==
  LET a == change_to_configuration_reg(io)
      b == WireWrite(a, 0)
      c == WireEndTransmission(b, o1)
      d == change_to_temp_reg(c, o2)
  IN Println(Println(d, Msg("Device Configuration complete: 0x08")),
             Msg("Configuration: 2 OS faults, OS Active-Low, Comparator Mode, not in low-power mode"))

setConfigConditions(io, o1, o2) ==
  LET a == change_to_configuration_reg(io)
      b == WireWrite(a, 8)
      c == WireEndTransmission(b, o1)
      d == change_to_temp_reg(c, o2)
  IN Println(Println(d, Msg("Device Configuration complete: 0x08")),
             Msg("Configuration: 2 OS faults, OS Active-Low, Comparator Mode, not in low-power mode"))

\* Mutation of printHelpMenu: the Temperature register is re-selected first.
printHelpMenu_ReselectsTemperature(io) ==
  Println(change_to_temp_reg(io, [status |-> 0, acked |-> 2]), Msg("Commands:"))

\* The nine lines of the menu, as one message.
printHelpMenu(io) == Println(io, Msg("Commands:"))

\* byte temp_f = (temp_c * 1.8) + 32: the fraction is dropped (for a byte c the
\* floating-point sum has the integer part of the exact c * 9 / 5 + 32); a value
\* that does not fit a byte is undefined behaviour, which builds resolve by
\* wrapping or by saturating.
Fahrenheit(c, ub) ==
  LET f == (c * 18 + 320) \div 10
  IN IF f <= 255 THEN f ELSE IF ub = "wrap" THEN f % 256 ELSE 255

\* Mutation of BytesReceivedOk: any non-empty answer is taken as a reading.
BytesReceivedOk_AtLeastOne(bytesReceived) == bytesReceived >= 1

\* The test readTemperature makes on what requestFrom returned.
BytesReceivedOk(bytesReceived) == bytesReceived = 2

\* readTemperature: r.io, r.temp_c, r.temp_f after the call.
readTemperature(io, count, ambient, pinState, ub) ==
  LET a == WireRequestFrom(io, 72, count)
      bytesReceived == count
  IN IF BytesReceivedOk(bytesReceived)
       THEN LET c == DevReadByte(a.dev, ambient)
                f == Fahrenheit(c, ub)
                pinStateStr == IF pinState = "HIGH" THEN "LOW" ELSE "HIGH"
            IN [io |-> Println(a, MsgT("Temperature", <<c, f, user_T_OS, user_T_hyst>>,
                                        <<pinStateStr>>)),
                temp_c |-> c, temp_f |-> f]
       ELSE [io |-> Println(a, MsgV(MismatchText,
                                    <<bytesReceived>>)),
             temp_c |-> temp_c, temp_f |-> temp_f]

\* The part of a step that carries an io record back into the state.
Commit(io) ==
  /\ dev' = io.dev
  /\ wire' = io.wire
  /\ wire_log' = io.log
  /\ write_calls' = io.calls
  /\ serial_out' = io.out
  /\ switch_status' = io.sw

(***************************************************************************)
(* Initial state: the globals as initialised, the sensor as it powers on.  *)
(***************************************************************************)
Init ==
  /\ pc = "setup"
  /\ int_bits \in {16, 32}
  /\ temp_c = 0
  /\ temp_f = 0
  /\ outputFlag = 0
  /\ user_T_OS = 30
  /\ user_T_hyst = 29
  /\ loop_delay = 1000
  /\ dev = [ptr |-> 0, conf |-> 0, thyst |-> 75, tos |-> 80]
  /\ wire = [open |-> FALSE, buf |-> <<>>]
  /\ wire_log = <<>>
  /\ write_calls = <<>>
  /\ serial_out = <<>>
  /\ rx_lines = 0
  /\ cmd_line = NoLine
  /\ iter_log = <<>>
  /\ slept = 0
  /\ switch_status = -1

setup ==
  /\ pc = "setup"
  /\ \E o1 \in Outcomes, o2 \in SwitchOutcomes, o3 \in Outcomes, o4 \in SwitchOutcomes :
       \E b \in { change_OS_temp(Println(IoStart, Msg("Initializing...")), user_T_OS, o1, o2) } :
         \E c \in { setConfigConditions(b, o3, o4) } :
           Commit(printHelpMenu(Println(c, Msg("Ready for commands:"))))
  /\ temp_c' = 0
  /\ temp_f' = 0
  /\ pc' = "poll"
  /\ UNCHANGED << int_bits, outputFlag, user_T_OS, user_T_hyst, loop_delay, rx_lines,
                  cmd_line, iter_log, slept >>

(***************************************************************************)
(* processCommand: one operator per branch of its else-if chain.  Each     *)
(* branch states every global and the io record it leaves behind.          *)
(***************************************************************************)
\* Mutation of ThresholdOutOfRange: only the upper limit is tested.
ThresholdOutOfRange_UpperOnly(v) == v > 127

\* Mutation of ThresholdOutOfRange: 0 is refused, as the delay test refuses it.
ThresholdOutOfRange_ZeroRefused(v) == v <= 0 \/ v > 127

\* The range test on a threshold argument.
ThresholdOutOfRange(v) == v < 0 \/ v > 127

\* The test that rejects a delay.
DelayInvalid(new_delay) == new_delay <= 0

\* The floor applied to an accepted delay.
DelayFloor(new_delay) == IF new_delay < 10 THEN 10 ELSE new_delay

\* Mutation of StoredThreshold: the global is not updated.
StoredThreshold_Stale(new_value, old_value) == old_value

\* user_T_OS = new_OS and user_T_hyst = new_hyst after the device write.
StoredThreshold(new_value, old_value) == new_value

pauseOutput == outputFlag' = 0

resumeOutput == outputFlag' = 1

CmdSetOS(command) ==
  LET osString == ArgString(command, 7)
      new_OS == IntOfLong(ToInt(osString), int_bits)
  IN IF ThresholdOutOfRange(new_OS)
       THEN /\ Commit(Println(IoStart, Msg(OsRangeText)))
            /\ UNCHANGED << user_T_OS, user_T_hyst, loop_delay, outputFlag, temp_c, temp_f >>
            /\ iter_log' = Append(iter_log, "cmd")
       ELSE /\ \E o1 \in Outcomes, o2 \in SwitchOutcomes :
                 Commit(Println(change_OS_temp(IoStart, new_OS, o1, o2),
                                MsgV("Overtemp threshold set to: ", <<new_OS>>)))
            /\ user_T_OS' = StoredThreshold(new_OS, user_T_OS)
            /\ UNCHANGED << user_T_hyst, loop_delay, outputFlag, temp_c, temp_f >>
            /\ iter_log' = Append(iter_log, "cmd")

CmdSetDelay(command) ==
  LET delayString == ArgString(command, 10)
      new_delay == IntOfLong(ToInt(delayString), int_bits)
  IN IF DelayInvalid(new_delay)
       THEN /\ Commit(Println(IoStart, Msg(DelayErrorText)))
            /\ UNCHANGED << user_T_OS, user_T_hyst, loop_delay, outputFlag, temp_c, temp_f >>
            /\ iter_log' = Append(iter_log, "cmd")
       ELSE LET floored == DelayFloor(new_delay)
                a == IF new_delay < 10
                       THEN Println(IoStart, Msg(DelayWarningText))
                       ELSE IoStart
            IN /\ Commit(Println(a, MsgV("Loop delay set to: ", <<floored>>)))
               /\ loop_delay' = floored
               /\ UNCHANGED << user_T_OS, user_T_hyst, outputFlag, temp_c, temp_f >>
               /\ iter_log' = Append(iter_log, "cmd")

CmdHelp ==
  /\ Commit(printHelpMenu(IoStart))
  /\ UNCHANGED << user_T_OS, user_T_hyst, loop_delay, outputFlag, temp_c, temp_f >>
  /\ iter_log' = Append(iter_log, "cmd")

CmdGetTemp ==
  /\ \E i \in ReadCases :
       LET r == readTemperature(IoStart, i.count, i.ambient, i.pinState, i.ub)
       IN /\ Commit(r.io)
          /\ temp_c' = r.temp_c
          /\ temp_f' = r.temp_f
  /\ UNCHANGED << user_T_OS, user_T_hyst, loop_delay, outputFlag >>
  /\ iter_log' = iter_log \o <<"cmd", "read">>

CmdSetHyst(command) ==
  LET hystString == ArgString(command, 9)
      new_hyst == IntOfLong(ToInt(hystString), int_bits)
  IN IF ThresholdOutOfRange(new_hyst)
       THEN /\ Commit(Println(IoStart, Msg(HystRangeText)))
            /\ UNCHANGED << user_T_OS, user_T_hyst, loop_delay, outputFlag, temp_c, temp_f >>
            /\ iter_log' = Append(iter_log, "cmd")
       ELSE /\ \E o1 \in Outcomes, o2 \in SwitchOutcomes :
                 Commit(Println(change_tHyst_temp(IoStart, new_hyst, o1, o2),
                                MsgV("T_hyst set to: ", <<new_hyst>>)))
            /\ user_T_hyst' = StoredThreshold(new_hyst, user_T_hyst)
            /\ UNCHANGED << user_T_OS, loop_delay, outputFlag, temp_c, temp_f >>
            /\ iter_log' = Append(iter_log, "cmd")

CmdPause ==
  /\ pauseOutput
  /\ Commit(IoStart)
  /\ UNCHANGED << user_T_OS, user_T_hyst, loop_delay, temp_c, temp_f >>
  /\ iter_log' = Append(iter_log, "cmd")

CmdStart ==
  /\ resumeOutput
  /\ Commit(IoStart)
  /\ UNCHANGED << user_T_OS, user_T_hyst, loop_delay, temp_c, temp_f >>
  /\ iter_log' = Append(iter_log, "cmd")

CmdUnknown(command) ==
  /\ Commit(Println(IoStart, MsgT(UnknownText, <<>>, command)))
  /\ UNCHANGED << user_T_OS, user_T_hyst, loop_delay, outputFlag, temp_c, temp_f >>
  /\ iter_log' = Append(iter_log, "cmd")

\* Mutation of Dispatch: the chain ends in the START branch instead of the
\* unknown-command branch.
Dispatch_ElseStart(command) ==
  IF StartsWith(command, W_SET_OS) THEN "SET_OS"
  ELSE IF StartsWith(command, W_SET_DELAY) THEN "SET_DELAY"
  ELSE IF StartsWith(command, W_HELP) THEN "HELP"
  ELSE IF StartsWith(command, W_GET_TEMP) THEN "GET_TEMP"
  ELSE IF StartsWith(command, W_SET_HYST) THEN "SET_HYST"
  ELSE IF StartsWith(command, W_PAUSE) THEN "PAUSE"
  ELSE "START"

\* Which branch of the chain takes the command.
Dispatch(command) ==
  IF StartsWith(command, W_SET_OS) THEN "SET_OS"
  ELSE IF StartsWith(command, W_SET_DELAY) THEN "SET_DELAY"
  ELSE IF StartsWith(command, W_HELP) THEN "HELP"
  ELSE IF StartsWith(command, W_GET_TEMP) THEN "GET_TEMP"
  ELSE IF StartsWith(command, W_SET_HYST) THEN "SET_HYST"
  ELSE IF StartsWith(command, W_PAUSE) THEN "PAUSE"
  ELSE IF StartsWith(command, W_START) THEN "START"
  ELSE "unknown"

processCommand(command) ==
  LET k == Dispatch(command)
  IN IF k = "SET_OS" THEN CmdSetOS(command)
     ELSE IF k = "SET_DELAY" THEN CmdSetDelay(command)
     ELSE IF k = "HELP" THEN CmdHelp
     ELSE IF k = "GET_TEMP" THEN CmdGetTemp
     ELSE IF k = "SET_HYST" THEN CmdSetHyst(command)
     ELSE IF k = "PAUSE" THEN CmdPause
     ELSE IF k = "START" THEN CmdStart
     ELSE CmdUnknown(command)

(***************************************************************************)
(* loop(): the poll, the command, the delay.                               *)
(***************************************************************************)
\* Mutation of PollEnabled: the reading is taken in every iteration.
PollEnabled_Always == TRUE

\* Mutation of PollEnabled: the reading is taken while the flag is 0.
PollEnabled_Inverted == outputFlag = 0

\* The test that guards the periodic reading.
PollEnabled == outputFlag = 1

\* Mutation of AfterPoll: a failed reading stops the sketch.
AfterPoll_HaltOnMismatch == IF HasMsg(serial_out', MismatchText) THEN "halted" ELSE "input"

\* Where loop() goes after the poll phase, the command phase and the delay.
AfterPoll == "input"

\* Mutation of AfterInput: the command phase repeats while lines are waiting.
AfterInput_DrainBuffer == IF rx_lines' > 0 THEN "input" ELSE "sleep"

AfterInput == "sleep"

AfterDelay == "poll"

LoopPoll ==
  /\ pc = "poll"
  /\ IF PollEnabled
       THEN /\ \E i \in ReadCases :
                 LET r == readTemperature(IoStart, i.count, i.ambient, i.pinState, i.ub)
                 IN /\ Commit(r.io)
                    /\ temp_c' = r.temp_c
                    /\ temp_f' = r.temp_f
            /\ iter_log' = <<"poll">>
       ELSE /\ Commit(IoStart)
            /\ UNCHANGED << temp_c, temp_f >>
            /\ iter_log' = <<>>
  /\ pc' = AfterPoll
  /\ UNCHANGED << int_bits, outputFlag, user_T_OS, user_T_hyst, loop_delay, rx_lines,
                  cmd_line, slept >>

LoopInputFrom(lines) ==
  /\ pc = "input"
  /\ IF rx_lines > 0
       THEN \E line \in lines :
              /\ rx_lines' = rx_lines - 1
              /\ cmd_line' = Trim(line)
              /\ processCommand(Trim(line))
       ELSE /\ Commit(IoStart)
            /\ UNCHANGED << rx_lines, cmd_line, iter_log, user_T_OS, user_T_hyst,
                            loop_delay, outputFlag, temp_c, temp_f >>
  /\ pc' = AfterInput
  /\ UNCHANGED << int_bits, slept >>

LoopInput == LoopInputFrom(InputLines)

LoopDelay ==
  /\ pc = "sleep"
  /\ slept' = loop_delay
  /\ iter_log' = Append(iter_log, "sleep")
  /\ Commit(IoStart)
  /\ cmd_line' = NoLine
  /\ pc' = AfterDelay
  /\ UNCHANGED << int_bits, temp_c, temp_f, outputFlag, user_T_OS, user_T_hyst,
                  loop_delay, rx_lines >>

\* The operator sends one more line to the serial port.  The sketch looks at
\* the receive buffer only in Serial.available() at the head of the command phase,
\* so a line that arrives during another phase is one that arrives just before
\* that call.
OperatorTypes ==
  /\ pc = "input"
  /\ rx_lines < MaxPending
  /\ rx_lines' = rx_lines + 1
  /\ UNCHANGED << pc, int_bits, temp_c, temp_f, outputFlag, user_T_OS, user_T_hyst,
                  loop_delay, dev, wire, wire_log, write_calls, serial_out, cmd_line,
                  iter_log, slept, switch_status >>

Step == setup \/ LoopPoll \/ LoopInput \/ LoopDelay

Next == Step \/ OperatorTypes

Spec == Init /\ [][Next]_vars

\* The lines that lead to each kind of error report, with START and GET_TEMP to
\* have readings taken.
ErrorLines ==
  { W_SET_OS \o <<" ", "5", "0">>,
    W_SET_OS \o <<"=", "2", "0", "0">>,
    W_SET_HYST \o <<" ", "=", " ", "4", "5", "\r">>,
    W_SET_HYST \o <<" ", "1", "2", "8">>,
    W_SET_DELAY \o <<" ", "0">>,
    W_GET_TEMP,
    W_PAUSE,
    W_START \o <<" ">>,
    <<"R", "E", "S", "E", "T">> }

LiveLoopInput == LoopInputFrom(ErrorLines)

LiveStep == setup \/ LoopPoll \/ LiveLoopInput \/ LoopDelay

LiveNext == LiveStep \/ OperatorTypes

\* loop() is called again whenever it returns, and every call in it returns.
LiveSpec == Init /\ [][LiveNext]_vars /\ WF_vars(LiveStep)

\* Lines whose argument is missing or is no number, with two well-formed ones
\* to have the threshold and the interval moved off their initial values.
MalformedLines ==
  { W_SET_OS,
    W_SET_OS \o <<" ", "-">>,
    W_SET_HYST \o <<" ", "l", "o", "w">>,
    W_SET_HYST \o <<"=">>,
    W_SET_DELAY,
    W_SET_DELAY \o <<" ", "=", "x", "5">>,
    W_SET_OS \o <<" ", "5", "0">>,
    W_SET_DELAY \o <<" ", "5", "0", "0">> }

MalformedLoopInput == LoopInputFrom(MalformedLines)

MalformedStep == setup \/ LoopPoll \/ MalformedLoopInput \/ LoopDelay

MalformedNext == MalformedStep \/ OperatorTypes

MalformedSpec == Init /\ [][MalformedNext]_vars

(***************************************************************************)
(* change_OS_temp and change_tHyst_temp called on their own, with any int  *)
(* as argument, against the sensor as it powers on.                        *)
(***************************************************************************)
\* Arguments on both sides of 0, 127 and the byte range, and the ends of a
\* 16-bit int.
ClampInputs == { -32768, -129, -1, 0, 1, 64, 127, 128, 255, 256, 383, 32767 }

DirectInit ==
  /\ pc = "direct"
  /\ int_bits \in {16, 32}
  /\ temp_c = 0
  /\ temp_f = 0
  /\ outputFlag = 0
  /\ user_T_OS = 30
  /\ user_T_hyst = 29
  /\ loop_delay = 1000
  /\ dev = [ptr |-> 0, conf |-> 0, thyst |-> 75, tos |-> 80]
  /\ wire = [open |-> FALSE, buf |-> <<>>]
  /\ wire_log = <<>>
  /\ write_calls = <<>>
  /\ serial_out = <<>>
  /\ rx_lines = 0
  /\ cmd_line = NoLine
  /\ iter_log = <<>>
  /\ slept = 0
  /\ switch_status = -1

DirectCallOS ==
  /\ pc = "direct"
  /\ \E v \in ClampInputs, o1 \in Outcomes, o2 \in SwitchOutcomes :
       Commit(change_OS_temp(IoStart, v, o1, o2))
  /\ UNCHANGED << pc, int_bits, temp_c, temp_f, outputFlag, user_T_OS, user_T_hyst,
                  loop_delay, rx_lines, cmd_line, iter_log, slept >>

DirectCallHyst ==
  /\ pc = "direct"
  /\ \E v \in ClampInputs, o1 \in Outcomes, o2 \in SwitchOutcomes :
       Commit(change_tHyst_temp(IoStart, v, o1, o2))
  /\ UNCHANGED << pc, int_bits, temp_c, temp_f, outputFlag, user_T_OS, user_T_hyst,
                  loop_delay, rx_lines, cmd_line, iter_log, slept >>

DirectNext == DirectCallOS \/ DirectCallHyst

DirectSpec == DirectInit /\ [][DirectNext]_vars

TypeOK ==
  /\ pc \in {"setup", "poll", "input", "sleep"}
  /\ int_bits \in {16, 32}
  /\ temp_c \in 0..255
  /\ temp_f \in 0..255
  /\ outputFlag \in {0, 1}
  /\ rx_lines \in 0..MaxPending
  /\ dev.ptr \in 0..3
  /\ wire.open = FALSE

(***************************************************************************)
(* Vocabulary of the properties.                                           *)
(***************************************************************************)
\* A step of loop() that handed a command to processCommand.
CmdStep == pc = "input" /\ cmd_line' /= NoLine

\* A step that called readTemperature.
ReadStep == pc' /= pc /\ wire_log' /= <<>> /\ wire_log'[Len(wire_log')].op = "requestFrom"

ReadCount(log) == Cardinality({ i \in DOMAIN log : log[i].op = "requestFrom" })

Config == << user_T_OS, user_T_hyst, loop_delay, outputFlag >>

(***************************************************************************)
(* C1.  SET_OS x and SET_HYST x: for 0 <= x <= 127 the stored threshold is *)
(* x after the command; for x < 0 or x > 127 it is unchanged and the       *)
(* out-of-range error is printed.  x is the integer the operator typed.    *)
(***************************************************************************)
C1_ThresholdCommandContract ==
  [][ CmdStep =>
        LET c == cmd_line'
            k == Dispatch(c)
        IN /\ k = "SET_OS" =>
                LET x == ToInt(ArgString(c, 7))
                IN IF 0 <= x /\ x <= 127
                     THEN user_T_OS' = x
                     ELSE user_T_OS' = user_T_OS /\ HasMsg(serial_out', OsRangeText)
           /\ k = "SET_HYST" =>
                LET x == ToInt(ArgString(c, 9))
                IN IF 0 <= x /\ x <= 127
                     THEN user_T_hyst' = x
                     ELSE user_T_hyst' = user_T_hyst /\ HasMsg(serial_out', HystRangeText)
    ]_vars

(***************************************************************************)
(* C2.  SET_DELAY d: for d <= 0 loop_delay is unchanged and the error is   *)
(* printed; for 0 < d < 10 loop_delay becomes 10 and the warning is        *)
(* printed; for d >= 10 loop_delay becomes d.  d is the integer typed.     *)
(***************************************************************************)
C2_DelayCommandContract ==
  [][ (CmdStep /\ Dispatch(cmd_line') = "SET_DELAY") =>
        LET d == ToInt(ArgString(cmd_line', 10))
        IN IF d <= 0
             THEN loop_delay' = loop_delay /\ HasMsg(serial_out', DelayErrorText)
             ELSE IF d < 10
               THEN loop_delay' = 10 /\ HasMsg(serial_out', DelayWarningText)
               ELSE loop_delay' = d
    ]_vars

(***************************************************************************)
(* C3 as stated.  Once setup() has run, the sensor's register pointer is   *)
(* on the Temperature register whenever a step of the sketch has           *)
(* completed, whatever the transport answered to the switch-back.          *)
(***************************************************************************)
C3_PointerAlwaysOnTemperature == pc /= "setup" => dev.ptr = 0

(***************************************************************************)
(* C3 as amended.  Whenever the last switch-back transmission was          *)
(* acknowledged (endTransmission returned 0) the pointer is on the         *)
(* Temperature register, and a 2-byte reading taken then stores the        *)
(* ambient temperature.                                                    *)
(***************************************************************************)
C3_PointerOnTemperatureAfterAcknowledgedSwitchBack ==
  /\ switch_status = 0 => dev.ptr = 0
  /\ ( /\ switch_status = 0
       /\ Len(wire_log) = 1
       /\ wire_log[1].op = "requestFrom"
       /\ wire_log[1].val = 2 ) => temp_c \in TempBytes

\* A threshold write moved the pointer to T_os, stored 50 there, and the
\* acknowledged switch-back brought the pointer back.
C3_Witness ==
  /\ Len(wire_log) = 7
  /\ wire_log[2].val = 3
  /\ wire_log[4].val = 0
  /\ switch_status = 0
  /\ dev.tos = 50
  /\ dev.ptr = 0

(***************************************************************************)
(* C4.  A readTemperature call prints ByteMismatchError exactly when       *)
(* requestFrom returned a count other than 2; the message carries that     *)
(* count and temp_c, temp_f keep the last reading.  No other step prints   *)
(* the error.                                                              *)
(***************************************************************************)
C4_ByteMismatchIffCountNotTwo ==
  [][ /\ ReadStep =>
           LET n == wire_log'[Len(wire_log')].val
           IN /\ HasMsg(serial_out', MismatchText) <=> n /= 2
              /\ n /= 2 => /\ serial_out' = << MsgV(MismatchText, <<n>>) >>
                           /\ temp_c' = temp_c
                           /\ temp_f' = temp_f
      /\ (pc' /= pc /\ HasMsg(serial_out', MismatchText)) => ReadStep
    ]_vars

\* requestFrom returned 1: the error names 1 and the reading 30C / 86F is kept.
C4_Witness ==
  /\ serial_out = << MsgV(MismatchText, <<1>>) >>
  /\ temp_c = 30
  /\ temp_f = 86

(***************************************************************************)
(* C5.  After a 2-byte reading the stored and printed Fahrenheit value is  *)
(* round(temp_c * 1.8 + 32).                                               *)
(***************************************************************************)
RoundedFahrenheit(c) == (c * 18 + 320 + 5) \div 10

C5_FahrenheitIsRounded ==
  ( /\ wire_log /= <<>>
    /\ wire_log[Len(wire_log)].op = "requestFrom"
    /\ wire_log[Len(wire_log)].val = 2 ) =>
      /\ temp_f = RoundedFahrenheit(temp_c)
      /\ serial_out[Len(serial_out)].vals[2] = RoundedFahrenheit(temp_c)

(***************************************************************************)
(* C6.  While outputFlag is 0 the poll phase of loop() takes no reading;   *)
(* a GET_TEMP processed then takes exactly one.  PAUSE sets the flag to 0  *)
(* and only START sets it back.                                            *)
(***************************************************************************)
C6_PauseSuppressesPollNotGetTemp ==
  [][ /\ (pc = "poll" /\ pc' /= pc /\ outputFlag = 0) =>
           /\ wire_log' = <<>>
           /\ serial_out' = <<>>
           /\ iter_log' = <<>>
           /\ temp_c' = temp_c
           /\ temp_f' = temp_f
      /\ (CmdStep /\ Dispatch(cmd_line') = "GET_TEMP" /\ outputFlag = 0) =>
           /\ ReadCount(wire_log') = 1
           /\ iter_log' = <<"cmd", "read">>
           /\ outputFlag' = 0
      /\ (CmdStep /\ Dispatch(cmd_line') = "PAUSE") => outputFlag' = 0
      /\ (outputFlag = 0 /\ outputFlag' /= 0) => (CmdStep /\ Dispatch(cmd_line') = "START")
    ]_vars

\* A GET_TEMP answered with a reading in an iteration that did not poll.
C6_Witness ==
  /\ outputFlag = 0
  /\ cmd_line = W_GET_TEMP
  /\ iter_log = <<"cmd", "read">>
  /\ HasMsg(serial_out, "Temperature")
  /\ slept > 0

(***************************************************************************)
(* C7.  When the command phase ends the command is applied in full: an     *)
(* accepted threshold command has made both of its transmissions and       *)
(* stored the threshold, an accepted SET_DELAY has stored the interval,    *)
(* PAUSE and START have set the flag.  No transmission is left open, no    *)
(* other phase changes the configuration or the sensor's registers, and a  *)
(* periodic reading prints the stored thresholds.                          *)
(***************************************************************************)
ThresholdWriteLog(log, reg, v) ==
  /\ Len(log) = 7
  /\ log[1].op = "begin"
  /\ log[2].op = "write" /\ log[2].val = reg
  /\ log[3].op = "write" /\ log[3].val = v
  /\ log[4].op = "end"
  /\ log[5].op = "begin"
  /\ log[6].op = "write" /\ log[6].val = 0
  /\ log[7].op = "end"

CmdEffect(c) ==
  LET k == Dispatch(c)
  IN /\ k = "SET_OS" =>
          LET v == IntOfLong(ToInt(ArgString(c, 7)), int_bits)
          IN ~ThresholdOutOfRange(v) =>
               /\ user_T_OS' = v
               /\ ThresholdWriteLog(wire_log', 3, v)
               /\ wire_log'[4].val = 0 => dev'.tos = v
     /\ k = "SET_HYST" =>
          LET v == IntOfLong(ToInt(ArgString(c, 9)), int_bits)
          IN ~ThresholdOutOfRange(v) =>
               /\ user_T_hyst' = v
               /\ ThresholdWriteLog(wire_log', 2, v)
               /\ wire_log'[4].val = 0 => dev'.thyst = v
     /\ k = "SET_DELAY" =>
          LET v == IntOfLong(ToInt(ArgString(c, 10)), int_bits)
          IN ~DelayInvalid(v) => loop_delay' = DelayFloor(v)
     /\ k = "PAUSE" => outputFlag' = 0
     /\ k = "START" => outputFlag' = 1

C7_CommandAppliedBeforeNextPoll ==
  [][ /\ CmdStep => CmdEffect(cmd_line')
      /\ wire'.open = FALSE
      /\ (pc /= "input" /\ pc /= "setup") => (Config' = Config /\ dev' = dev)
      /\ (pc = "poll" /\ HasMsg(serial_out', "Temperature")) =>
           /\ serial_out'[1].vals[3] = user_T_OS
           /\ serial_out'[1].vals[4] = user_T_hyst
    ]_vars

\* A periodic reading that prints the threshold 50 an earlier SET_OS stored.
C7_Witness ==
  /\ pc = "input"
  /\ iter_log = <<"poll">>
  /\ HasMsg(serial_out, "Temperature")
  /\ serial_out[1].vals[3] = 50
  /\ user_T_OS = 50
  /\ dev.tos = 50

(***************************************************************************)
(* C8.  Whatever error is printed, loop() goes on to its delay, and the    *)
(* poll phase, the command phase and the delay recur for ever.             *)
(***************************************************************************)
ErrorTexts ==
  { OsRangeText, HystRangeText, DelayErrorText, MismatchText, SwitchErrorText, UnknownText }

ErrorReported == \E i \in 1..Len(serial_out) : serial_out[i].msg \in ErrorTexts

C8_ErrorsNeverHaltLoop ==
  /\ ErrorReported ~> (pc = "sleep")
  /\ []<>(pc = "poll")
  /\ []<>(pc = "input")
  /\ []<>(pc = "sleep")

\* A failed periodic reading in an iteration after the first delay.
C8_Witness ==
  /\ HasMsg(serial_out, MismatchText)
  /\ iter_log = <<"poll">>
  /\ slept > 0

(***************************************************************************)
(* C9 as stated.  An iteration of loop() is at most one poll, then at most *)
(* one command, then the delay of loop_delay, and holds at most one        *)
(* reading of the sensor.                                                  *)
(***************************************************************************)
IterationShapes ==
  LET bodies == { <<>>, <<"poll">>, <<"cmd">>, <<"poll", "cmd">>, <<"cmd", "read">>,
                  <<"poll", "cmd", "read">> }
  IN bodies \cup { Append(b, "sleep") : b \in bodies }

IterationShapeOk ==
  /\ iter_log \in IterationShapes
  /\ pc = "input" => iter_log \in { <<>>, <<"poll">> }
  /\ pc = "sleep" => \A i \in DOMAIN iter_log : iter_log[i] /= "sleep"
  /\ (iter_log /= <<>> /\ iter_log[Len(iter_log)] = "sleep") => (pc = "poll" /\ slept = loop_delay)

SensorReads(log) == Cardinality({ i \in DOMAIN log : log[i] \in {"poll", "read"} })

C9_AtMostOneReadPerIteration == IterationShapeOk /\ SensorReads(iter_log) <= 1

(***************************************************************************)
(* C9 as amended.  An iteration of loop() is at most one periodic reading, *)
(* then at most one command, then the delay of loop_delay; the command     *)
(* adds a second reading exactly when it is GET_TEMP.                      *)
(***************************************************************************)
C9_IterationShape ==
  /\ IterationShapeOk
  /\ SensorReads(iter_log) <= 2
  /\ pc = "sleep" =>
       ((\E i \in DOMAIN iter_log : iter_log[i] = "read") <=>
          (cmd_line /= NoLine /\ Dispatch(cmd_line) = "GET_TEMP"))
  /\ pc = "sleep" =>
       ((\E i \in DOMAIN iter_log : iter_log[i] = "cmd") <=> cmd_line /= NoLine)

\* An iteration that polled, answered GET_TEMP and slept the 10 ms an earlier
\* SET_DELAY had set.
C9_Witness ==
  /\ iter_log = <<"poll", "cmd", "read", "sleep">>
  /\ slept = 10

(***************************************************************************)
(* C10.  A command that starts with none of the command words changes no   *)
(* global and nothing in the sensor, makes no Wire call, and prints the    *)
(* unknown-command error followed by the command.                          *)
(***************************************************************************)
CommandWords == { W_SET_OS, W_SET_DELAY, W_HELP, W_GET_TEMP, W_SET_HYST, W_PAUSE, W_START }

MatchesNoCommand(c) == \A w \in CommandWords : ~StartsWith(c, w)

C10_UnknownCommandChangesNothing ==
  [][ (CmdStep /\ MatchesNoCommand(cmd_line')) =>
        /\ UNCHANGED << user_T_OS, user_T_hyst, loop_delay, outputFlag, temp_c, temp_f,
                        dev, wire, switch_status >>
        /\ wire_log' = <<>>
        /\ serial_out' = << MsgT(UnknownText, <<>>, cmd_line') >>
    ]_vars

\* RESET typed after the threshold, the interval and the flag were changed.
C10_Witness ==
  /\ cmd_line = <<"R", "E", "S", "E", "T">>
  /\ serial_out = << MsgT(UnknownText, <<>>, cmd_line) >>
  /\ user_T_OS = 50
  /\ loop_delay = 500
  /\ outputFlag = 1

(***************************************************************************)
(* C11.  In every reachable state the stored thresholds user_T_OS and      *)
(* user_T_hyst lie in 0..127, whatever was typed and whatever the          *)
(* transport answered.                                                     *)
(***************************************************************************)
C11_StoredThresholdsInRange ==
  /\ user_T_OS \in 0..127
  /\ user_T_hyst \in 0..127

\* SET_HYST -5 refused after SET_OS and SET_HYST had stored 50 and 45.
C11_Witness ==
  /\ cmd_line = W_SET_HYST \o <<" ", "-", "5">>
  /\ HasMsg(serial_out, HystRangeText)
  /\ user_T_hyst = 45
  /\ user_T_OS = 50

(***************************************************************************)
(* C12.  setup() makes exactly one transmission to the Configuration       *)
(* register: pointer byte 1 and the byte 8, then the transmission that     *)
(* re-selects the Temperature register.  No later step addresses the       *)
(* Configuration register or changes what the sensor holds in it, so where *)
(* the transmission in setup() was acknowledged the sensor's configuration *)
(* is 8 from then on.                                                      *)
(***************************************************************************)
\* Positions in the log where a transmission opens with pointer byte reg.
Selections(log, reg) ==
  { i \in DOMAIN log :
      /\ log[i].op = "begin"
      /\ i + 1 \in DOMAIN log
      /\ log[i + 1].op = "write"
      /\ log[i + 1].val = reg }

C12_ConfigurationWrittenOnceAtStartup ==
  [][ /\ pc = "setup" =>
           /\ Len(wire_log') = 14
           /\ Selections(wire_log', 1) = {8}
           /\ ThresholdWriteLog(SubSeq(wire_log', 8, 14), 1, 8)
           /\ wire_log'[11].val = 0 => dev'.conf = 8
      /\ pc /= "setup" =>
           /\ Selections(wire_log', 1) = {}
           /\ dev'.conf = dev.conf
    ]_vars

\* The configuration written in setup() still there after a SET_HYST.
C12_Witness ==
  /\ pc = "sleep"
  /\ dev.conf = 8
  /\ dev.thyst = 45
  /\ Selections(wire_log, 2) = {1}

(***************************************************************************)
(* C13.  Round trip through the register layer.  After change_OS_temp      *)
(* wrote N (0 <= N <= 127) in a transmission the transport delivered, a    *)
(* read of the sensor's T_os register yields N; likewise T_hyst after      *)
(* change_tHyst_temp.  The other threshold register reads as before,       *)
(* whatever the transport answered.                                        *)
(***************************************************************************)
\* What the sensor returns once register reg is selected.
ReadBack(d, reg) == DevReadByte(DevReceive(d, <<reg>>), 0)

C13_ThresholdRoundTrip ==
  [][ /\ pc = "setup" =>
           /\ wire_log'[4].val = 0 => ReadBack(dev', 3) = user_T_OS
           /\ ReadBack(dev', 2) = ReadBack(dev, 2)
      /\ (CmdStep /\ Dispatch(cmd_line') = "SET_OS") =>
           LET N == IntOfLong(ToInt(ArgString(cmd_line', 7)), int_bits)
           IN /\ (N \in 0..127 /\ wire_log'[4].val = 0) => ReadBack(dev', 3) = N
              /\ ReadBack(dev', 2) = ReadBack(dev, 2)
      /\ (CmdStep /\ Dispatch(cmd_line') = "SET_HYST") =>
           LET N == IntOfLong(ToInt(ArgString(cmd_line', 9)), int_bits)
           IN /\ (N \in 0..127 /\ wire_log'[4].val = 0) => ReadBack(dev', 2) = N
              /\ ReadBack(dev', 3) = ReadBack(dev, 3)
    ]_vars

\* SET_HYST = 45 delivered after SET_OS 50 was: the sensor holds both.
C13_Witness ==
  /\ Dispatch(cmd_line) = "SET_HYST"
  /\ Len(wire_log) = 7
  /\ wire_log[4].val = 0
  /\ ReadBack(dev, 2) = 45
  /\ ReadBack(dev, 3) = 50

(***************************************************************************)
(* C14.  The error of change_to_temp_reg is printed exactly when the       *)
(* endTransmission of a transmission re-selecting the Temperature register *)
(* returned non-zero, once for each such transmission.  A write operation  *)
(* makes that transmission exactly once: the setup step, which writes      *)
(* T_os and the configuration, makes two, an accepted threshold command    *)
(* one, every other step none.  After a failed one the pointer is where    *)
(* the write transmission left it.                                         *)
(***************************************************************************)
FailedSwitchBacks(log) ==
  { i \in Selections(log, 0) : log[i + 2].op = "end" /\ log[i + 2].val /= 0 }

SwitchErrors(out) == { i \in DOMAIN out : out[i].msg = SwitchErrorText }

C14_SwitchBackErrorIffNonZeroStatus ==
  [][ /\ Cardinality(SwitchErrors(serial_out')) = Cardinality(FailedSwitchBacks(wire_log'))
      /\ pc = "setup" => Selections(wire_log', 0) = {5, 12}
      /\ (pc /= "setup" /\ Selections(wire_log', 0) /= {}) =>
           /\ CmdStep
           /\ Dispatch(cmd_line') \in {"SET_OS", "SET_HYST"}
           /\ Selections(wire_log', 0) = {5}
           /\ Len(wire_log') = 7
           /\ wire_log'[7].val /= 0 =>
                dev'.ptr = IF wire_log'[4].val = 2 THEN dev.ptr ELSE wire_log'[2].val
      /\ (CmdStep /\ Dispatch(cmd_line') \in {"SET_OS", "SET_HYST"} /\ wire_log' /= <<>>) =>
           Selections(wire_log', 0) = {5}
    ]_vars

\* SET_OS 50 reached the sensor, the switch-back did not: one error, and the
\* pointer left on T_os.
C14_Witness ==
  /\ Dispatch(cmd_line) = "SET_OS"
  /\ Cardinality(SwitchErrors(serial_out)) = 1
  /\ FailedSwitchBacks(wire_log) = {5}
  /\ wire_log[4].val = 0
  /\ dev.tos = 50
  /\ dev.ptr = 3

(***************************************************************************)
(* C15.  A threshold write is two transmissions: begin, the pointer byte   *)
(* (3 for T_os, 2 for T_hyst), one payload byte, end; then begin, pointer  *)
(* byte 0, end.  Every byte is queued inside an open transmission, no      *)
(* transmission is begun inside another, each end closes an open one, and  *)
(* none is open when a step of the sketch has completed.                   *)
(***************************************************************************)
WellFormed(log) ==
  \A i \in DOMAIN log :
    /\ log[i].op = "begin" => ~log[i].was_open
    /\ log[i].op = "write" => log[i].was_open
    /\ log[i].op = "end" => log[i].was_open
    /\ log[i].op = "requestFrom" => ~log[i].was_open

C15_ThresholdWriteIsTwoTransmissions ==
  /\ WellFormed(wire_log)
  /\ wire.open = FALSE
  /\ (pc = "poll" /\ wire_log /= <<>>) =>
       /\ Len(wire_log) = 14
       /\ ThresholdWriteLog(SubSeq(wire_log, 1, 7), 3, user_T_OS)
  /\ (pc = "sleep" /\ cmd_line /= NoLine /\ Dispatch(cmd_line) = "SET_OS") =>
       LET v == IntOfLong(ToInt(ArgString(cmd_line, 7)), int_bits)
       IN IF ThresholdOutOfRange(v) THEN wire_log = <<>> ELSE ThresholdWriteLog(wire_log, 3, v)
  /\ (pc = "sleep" /\ cmd_line /= NoLine /\ Dispatch(cmd_line) = "SET_HYST") =>
       LET v == IntOfLong(ToInt(ArgString(cmd_line, 9)), int_bits)
       IN IF ThresholdOutOfRange(v) THEN wire_log = <<>> ELSE ThresholdWriteLog(wire_log, 2, v)

\* SET_HYST = 45 whose payload byte was not acknowledged: the two
\* transmissions are made all the same.
C15_Witness ==
  /\ pc = "sleep"
  /\ Dispatch(cmd_line) = "SET_HYST"
  /\ ThresholdWriteLog(wire_log, 2, 45)
  /\ WellFormed(wire_log)
  /\ wire_log[4].val = 3

(***************************************************************************)
(* C16.  For every int v passed to change_OS_temp or change_tHyst_temp the *)
(* payload byte of the write transmission is min(max(v, 0), 127), sent to  *)
(* the register of the function called, and nothing is printed about the   *)
(* clamping: the only error line is that of a failed switch-back.  Hence   *)
(* the sensor's T_os and T_hyst registers only ever hold bytes in 0..127.  *)
(***************************************************************************)
MinOf(a, b) == IF a < b THEN a ELSE b

MaxOf(a, b) == IF a > b THEN a ELSE b

C16_WriteThresholdClampsSilently ==
  /\ \A i \in DOMAIN write_calls :
       LET v == write_calls[i].arg
           reg == IF write_calls[i].fn = "change_OS_temp" THEN 3 ELSE 2
       IN /\ ThresholdWriteLog(wire_log, reg, MinOf(MaxOf(v, 0), 127))
          /\ \A j \in DOMAIN serial_out :
               serial_out[j].msg \in ErrorTexts =>
                 (serial_out[j].msg = SwitchErrorText /\ wire_log[7].val /= 0)
  /\ dev.tos \in 0..127
  /\ dev.thyst \in 0..127

\* change_OS_temp(256) delivered 127 after change_tHyst_temp(-1) delivered 0.
C16_Witness ==
  /\ write_calls = << [fn |-> "change_OS_temp", arg |-> 256] >>
  /\ wire_log[3].val = 127
  /\ wire_log[4].val = 0
  /\ dev.tos = 127
  /\ dev.thyst = 0
  /\ ~ErrorReported

(***************************************************************************)
(* C17.  A SET_OS or SET_HYST whose argument is missing or is no number    *)
(* is accepted with the value 0: 0 is stored, the write of 0 to the        *)
(* sensor's register is made (and the register holds 0 when the transport  *)
(* delivered it), and the usual confirmation names 0.  A SET_DELAY with    *)
(* such an argument is refused with the invalid-delay error; loop_delay    *)
(* keeps its value and no Wire call is made.                               *)
(***************************************************************************)
\* No number can be read from s: after white space and an optional sign
\* there is no digit.
NoNumber(s) ==
  LET t == TrimLeft(s)
      u == IF t /= <<>> /\ Head(t) \in {"+", "-"} THEN Tail(t) ELSE t
  IN u = <<>> \/ ~IsDigit(Head(u))

C17_MissingArgumentTakenAsZero ==
  [][ /\ (CmdStep /\ Dispatch(cmd_line') = "SET_OS" /\ NoNumber(ArgString(cmd_line', 7))) =>
           /\ user_T_OS' = 0
           /\ ThresholdWriteLog(wire_log', 3, 0)
           /\ wire_log'[4].val = 0 => dev'.tos = 0
           /\ serial_out'[Len(serial_out')] = MsgV("Overtemp threshold set to: ", <<0>>)
           /\ ~HasMsg(serial_out', OsRangeText)
      /\ (CmdStep /\ Dispatch(cmd_line') = "SET_HYST" /\ NoNumber(ArgString(cmd_line', 9))) =>
           /\ user_T_hyst' = 0
           /\ ThresholdWriteLog(wire_log', 2, 0)
           /\ wire_log'[4].val = 0 => dev'.thyst = 0
           /\ serial_out'[Len(serial_out')] = MsgV("T_hyst set to: ", <<0>>)
           /\ ~HasMsg(serial_out', HystRangeText)
      /\ (CmdStep /\ Dispatch(cmd_line') = "SET_DELAY" /\ NoNumber(ArgString(cmd_line', 10))) =>
           /\ loop_delay' = loop_delay
           /\ serial_out' = << Msg(DelayErrorText) >>
           /\ wire_log' = <<>>
    ]_vars

\* SET_DELAY with nothing after it, refused after SET_DELAY 500; SET_OS with
\* nothing after it had set the threshold to 0, in the sketch and the sensor.
C17_Witness ==
  /\ cmd_line = W_SET_DELAY
  /\ serial_out = << Msg(DelayErrorText) >>
  /\ loop_delay = 500
  /\ user_T_OS = 0
  /\ dev.tos = 0

(***************************************************************************)
(* C18.  Whenever a reading is printed, the OS and Hyst values printed     *)
(* with it are the values the sensor holds in its T_os and T_hyst          *)
(* registers.                                                              *)
(***************************************************************************)
C18_ReportedThresholdsAreTheSensors ==
  \A i \in DOMAIN serial_out :
    serial_out[i].msg = "Temperature" =>
      /\ serial_out[i].vals[3] = dev.tos
      /\ serial_out[i].vals[4] = dev.thyst

(***************************************************************************)
(* C19.  Polling is off when setup() has run: outputFlag starts at 0 and   *)
(* setup() leaves it.  The flag goes from 0 to 1 only by a START and from  *)
(* 1 to 0 only by a PAUSE.  readTemperature is called only by the poll     *)
(* phase with the flag at 1 and by a GET_TEMP, so no reading is taken      *)
(* before the first START or GET_TEMP; and with the flag at 1 the poll     *)
(* phase that opens an iteration takes exactly one reading.                *)
(***************************************************************************)
C19_PollingOffUntilStart ==
  /\ outputFlag = 0
  /\ [][ /\ pc = "setup" => outputFlag' = 0
         /\ ReadStep =>
              \/ pc = "poll" /\ outputFlag = 1
              \/ CmdStep /\ Dispatch(cmd_line') = "GET_TEMP"
         /\ (outputFlag = 0 /\ outputFlag' /= 0) =>
              (CmdStep /\ Dispatch(cmd_line') = "START" /\ outputFlag' = 1)
         /\ (outputFlag = 1 /\ outputFlag' /= 1) =>
              (CmdStep /\ Dispatch(cmd_line') = "PAUSE" /\ outputFlag' = 0)
         /\ (CmdStep /\ Dispatch(cmd_line') = "START") => outputFlag' = 1
         /\ (pc = "poll" /\ pc' /= pc /\ outputFlag = 1) =>
              /\ ReadStep
              /\ ReadCount(wire_log') = 1
              /\ iter_log' = <<"poll">>
         /\ (pc = "poll" /\ pc' /= pc /\ outputFlag = 0) => ReadCount(wire_log') = 0
     ]_vars

\* The poll phase of an iteration after START, with the interval at 10 ms.
C19_Witness ==
  /\ pc = "input"
  /\ outputFlag = 1
  /\ iter_log = <<"poll">>
  /\ ReadCount(wire_log) = 1
  /\ slept = 10

(***************************************************************************)
(* C20.  PAUSE and START change outputFlag and nothing else; SET_DELAY     *)
(* changes loop_delay and nothing else, and nothing at all when it is      *)
(* refused; HELP and a refused SET_OS or SET_HYST change nothing.  None of *)
(* them makes a Wire call: the thresholds, the last reading and the        *)
(* sensor's registers and pointer are as before.                           *)
(***************************************************************************)
\* What none of these commands touches.
SensorFrame ==
  /\ UNCHANGED << user_T_OS, user_T_hyst, temp_c, temp_f, dev, wire, switch_status >>
  /\ wire_log' = <<>>
  /\ write_calls' = <<>>

C20_NonThresholdCommandsFrame ==
  [][ CmdStep =>
        LET k == Dispatch(cmd_line')
        IN /\ k \in {"PAUSE", "START"} => (SensorFrame /\ loop_delay' = loop_delay)
           /\ k = "SET_DELAY" => (SensorFrame /\ outputFlag' = outputFlag)
           /\ (k = "SET_DELAY" /\ HasMsg(serial_out', DelayErrorText)) =>
                loop_delay' = loop_delay
           /\ k = "HELP" =>
                (SensorFrame /\ loop_delay' = loop_delay /\ outputFlag' = outputFlag)
           /\ ( \/ k = "SET_OS" /\ HasMsg(serial_out', OsRangeText)
                \/ k = "SET_HYST" /\ HasMsg(serial_out', HystRangeText) ) =>
                (SensorFrame /\ loop_delay' = loop_delay /\ outputFlag' = outputFlag)
    ]_vars

\* PAUSE after a reading of 30 C, with the threshold at 50 in the sketch and
\* the sensor and the interval at 500 ms.
C20_Witness ==
  /\ cmd_line = W_PAUSE
  /\ outputFlag = 0
  /\ temp_c = 30
  /\ user_T_OS = 50
  /\ dev.tos = 50
  /\ loop_delay = 500
====
